---- MODULE Spec2Model ----
(***************************************************************************)
(* Model of microcore.pipeline.process_dataframe and of the text helpers   *)
(* it uses (microcore.utils.norm_text, _strip_loja_prefix, the TF-IDF      *)
(* index).  A string is a sequence of one-character strings; a missing     *)
(* cell (pandas NaN) is the distinguished value NaN.  A confidence is an   *)
(* integer number of ten-thousandths (round(sim, 4) * 10000).              *)
(***************************************************************************)
EXTENDS Integers, Sequences, FiniteSets, TLC

(***************************************************************************)
(* Characters                                                              *)
(***************************************************************************)
LowerAscii ==
    {"a", "b", "c", "d", "e", "f", "g", "h", "i", "j", "k", "l", "m", "n",
     "o", "p", "q", "r", "s", "t", "u", "v", "w", "x", "y", "z"}

Digits == {"0", "1", "2", "3", "4", "5", "6", "7", "8", "9"}

\* str.lower() on the characters of the model's alphabet
LowerOf ==
    "A" :> "a" @@ "B" :> "b" @@ "C" :> "c" @@ "D" :> "d" @@ "E" :> "e" @@
    "F" :> "f" @@ "G" :> "g" @@ "H" :> "h" @@ "I" :> "i" @@ "J" :> "j" @@
    "K" :> "k" @@ "L" :> "l" @@ "M" :> "m" @@ "N" :> "n" @@ "O" :> "o" @@
    "P" :> "p" @@ "Q" :> "q" @@ "R" :> "r" @@ "S" :> "s" @@ "T" :> "t" @@
    "U" :> "u" @@ "V" :> "v" @@ "W" :> "w" @@ "X" :> "x" @@ "Y" :> "y" @@
    "Z" :> "z" @@
    "Á" :> "á" @@ "Â" :> "â" @@ "Ã" :> "ã" @@ "É" :> "é" @@ "Ê" :> "ê" @@
    "Í" :> "í" @@ "Ó" :> "ó" @@ "Ô" :> "ô" @@ "Õ" :> "õ" @@ "Ú" :> "ú" @@
    "Ç" :> "ç"

\* unicodedata.normalize("NFKD", ch) with the combining marks dropped
AccentBase ==
    "Á" :> "A" @@ "Â" :> "A" @@ "Ã" :> "A" @@ "É" :> "E" @@ "Ê" :> "E" @@
    "Í" :> "I" @@ "Ó" :> "O" @@ "Ô" :> "O" @@ "Õ" :> "O" @@ "Ú" :> "U" @@
    "Ç" :> "C" @@
    "á" :> "a" @@ "â" :> "a" @@ "ã" :> "a" @@ "é" :> "e" @@ "ê" :> "e" @@
    "í" :> "i" @@ "ó" :> "o" @@ "ô" :> "o" @@ "õ" :> "o" @@ "ú" :> "u" @@
    "ç" :> "c"

UpperChars == DOMAIN LowerOf

AccentChars == DOMAIN AccentBase

\* the regex class \w (Unicode letters, digits, underscore)
WordChars == LowerAscii \cup UpperChars \cup AccentChars \cup Digits \cup {"_"}

\* the regex class \s
SpaceChars == {" ", "\t"}

IsWord(c) == c \in WordChars

IsSpace(c) == c \in SpaceChars

LowerChar(c) == IF c \in UpperChars THEN LowerOf[c] ELSE c

(***************************************************************************)
(* Strings                                                                 *)
(***************************************************************************)
\* a missing cell of a pandas table
NaN == <<"NaN">>

isna(v) == v = NaN

\* str(value) / .astype(str): a missing cell prints as "nan"
Str(v) == IF isna(v) THEN <<"n", "a", "n">> ELSE v

lower(t) == [i \in 1..Len(t) |-> LowerChar(t[i])]

RECURSIVE LStrip(_)
LStrip(t) == IF t # <<>> /\ IsSpace(Head(t)) THEN LStrip(Tail(t)) ELSE t

RECURSIVE RStrip(_)
RStrip(t) ==
    IF t # <<>> /\ IsSpace(t[Len(t)]) THEN RStrip(SubSeq(t, 1, Len(t) - 1)) ELSE t

\* str.strip()
strip(t) == RStrip(LStrip(t))

\* needle in hay (substring test)
Contains(hay, needle) ==
    \E i \in 1..(Len(hay) - Len(needle) + 1) :
        SubSeq(hay, i, i + Len(needle) - 1) = needle

(***************************************************************************)
(* microcore/utils.py                                                      *)
(***************************************************************************)
strip_accents(text) ==
    [i \in 1..Len(text) |-> IF text[i] \in AccentChars THEN AccentBase[text[i]]
                                                        ELSE text[i]]

\* re.sub(r"[^\w\s,.-]", " ", t)
SubNonWord(t) ==
    [i \in 1..Len(t) |->
        IF IsWord(t[i]) \/ IsSpace(t[i]) \/ t[i] \in {",", ".", "-"}
        THEN t[i] ELSE " "]

\* re.sub(r"\s+", " ", t)
RECURSIVE CollapseSpaces(_)
CollapseSpaces(t) ==
    IF t = <<>> THEN <<>>
    ELSE IF IsSpace(Head(t))
         THEN <<" ">> \o CollapseSpaces(LStrip(t))
         ELSE <<Head(t)>> \o CollapseSpaces(Tail(t))

\* the normalization with its trimming done first, before the substitution
norm_text_strip_first(text) ==
    CollapseSpaces(SubNonWord(strip(lower(strip_accents(text)))))

norm_text(text) ==
    strip(CollapseSpaces(SubNonWord(lower(strip_accents(text)))))

(***************************************************************************)
(* microcore/pipeline.py: _strip_loja_prefix                               *)
(***************************************************************************)
\* the nouns of _LOJA_PREFIX_RE, each followed by an optional "s"
PrefixNouns ==
    <<<<"l", "o", "j", "a">>, <<"p", "o", "s", "t", "o">>,
      <<"e", "s", "t", "ú", "d", "i", "o">>,
      <<"e", "s", "t", "u", "d", "i", "o">>,
      <<"e", "m", "p", "r", "e", "s", "a">>,
      <<"s", "e", "r", "v", "i", "ç", "o">>>>

\* the optional alternation (?:de|da|do|das|dos), tried in this order
PrefixPreps ==
    <<<<"d", "e">>, <<"d", "a">>, <<"d", "o">>, <<"d", "a", "s">>, <<"d", "o", "s">>>>

\* re.IGNORECASE literal match of the lower-case pattern p at the start of t
StartsWithCI(t, p) == Len(t) >= Len(p) /\ lower(SubSeq(t, 1, Len(p))) = p

Drop(t, n) == SubSeq(t, n + 1, Len(t))

\* _LOJA_PREFIX_RE.sub("", text): the text with the matched prefix removed
\* (the text itself when the pattern does not match at its start)
LojaPrefixSub(text) ==
    LET t0 == LStrip(text)
        nouns == {i \in DOMAIN PrefixNouns : StartsWithCI(t0, PrefixNouns[i])}
    IN  IF nouns = {} THEN text
        ELSE
          LET n  == PrefixNouns[CHOOSE i \in nouns : \A j \in nouns : i <= j]
              t1 == Drop(t0, Len(n))
              \* "s?" is greedy, and "\s+" must follow
              t2 == IF t1 # <<>> /\ LowerChar(t1[1]) = "s" THEN Drop(t1, 1) ELSE t1
          IN  IF t2 = <<>> \/ ~IsSpace(t2[1]) THEN text
              ELSE
                LET t3 == LStrip(t2)
                    preps == {i \in DOMAIN PrefixPreps : StartsWithCI(t3, PrefixPreps[i])}
                    t4 == IF preps = {} THEN t3
                          ELSE Drop(t3, Len(PrefixPreps[CHOOSE i \in preps :
                                                           \A j \in preps : i <= j]))
                IN  LStrip(t4)

strip_loja_prefix(value) ==
    IF isna(value) THEN value
    ELSE LET text == strip(Str(value))
         IN  IF text = <<>> THEN text
             ELSE LET cleaned == strip(LojaPrefixSub(text))
                  IN  IF cleaned # <<>> THEN cleaned ELSE text

(***************************************************************************)
(* The address rule's pattern                                              *)
(***************************************************************************)
EnderecoKeywords ==
    {<<"s", "h", "o", "p", "p", "i", "n", "g">>,
     <<"l", "o", "j", "a">>, <<"l", "j">>,
     <<"p", "o", "n", "t", "o">>, <<"c", "o", "n", "j">>,
     <<"c", "o", "n", "j", "u", "n", "t", "o">>}

\* re.search(r"\bw\b", t, re.IGNORECASE) for a keyword w made of word characters
MatchesWordCI(t, w) ==
    \E i \in 1..(Len(t) - Len(w) + 1) :
        /\ lower(SubSeq(t, i, i + Len(w) - 1)) = w
        /\ (i = 1 \/ ~IsWord(t[i - 1]))
        /\ (i + Len(w) > Len(t) \/ ~IsWord(t[i + Len(w)]))

\* .str.contains(r"\b(shopping|loja|lj|ponto|conj|conjunto)\b", case=False)
EnderecoExcluir(endereco) ==
    \E w \in EnderecoKeywords : MatchesWordCI(Str(endereco), w)

(***************************************************************************)
(* Arithmetic helpers                                                      *)
(***************************************************************************)
Range(s) == {s[i] : i \in DOMAIN s}

Max(a, b) == IF a >= b THEN a ELSE b

(***************************************************************************)
(* Exact arithmetic on natural numbers of any size, for the sums of        *)
(* squares of the cosine: a number is the sequence of its digits in base   *)
(* BigBase, least significant first, without leading zero digits.          *)
(***************************************************************************)
BigBase == 10000

\* the digit of rank k, 0 beyond the last
Limb(a, k) == IF k <= Len(a) THEN a[k] ELSE 0

\* drop the zero digits of highest rank
RECURSIVE BigTrim(_)
BigTrim(a) ==
    IF a # <<>> /\ a[Len(a)] = 0 THEN BigTrim(SubSeq(a, 1, Len(a) - 1)) ELSE a

\* carry propagation over digits that may exceed the base; c is the carry in
RECURSIVE BigCarry(_, _)
BigCarry(a, c) ==
    IF a = <<>> THEN (IF c = 0 THEN <<>> ELSE BigCarry(<<c>>, 0))
    ELSE LET v == Head(a) + c
         IN  <<v % BigBase>> \o BigCarry(Tail(a), v \div BigBase)

BigNorm(a) == BigTrim(BigCarry(a, 0))

BigAdd(a, b) == BigNorm([k \in 1..Max(Len(a), Len(b)) |-> Limb(a, k) + Limb(b, k)])

\* a times the small number c
BigScale(a, c) == BigNorm([k \in 1..Len(a) |-> a[k] * c])

\* the sum of a[j] * b[k + 1 - j] over the j in i..Len(a) that are at most k
RECURSIVE Conv(_, _, _, _)
Conv(a, b, k, i) ==
    IF i > Len(a) \/ i > k THEN 0
    ELSE a[i] * Limb(b, k + 1 - i) + Conv(a, b, k, i + 1)

\* the product; a sum of Conv has at most Len(a) terms, each below 10^8, so
\* a long first factor is taken twenty digits at a time
RECURSIVE BigMul(_, _)
BigMul(a, b) ==
    IF a = <<>> \/ b = <<>> THEN <<>>
    ELSE IF Len(a) > 20
    THEN BigAdd(BigMul(SubSeq(a, 1, 20), b),
                [k \in 1..20 |-> 0] \o BigMul(SubSeq(a, 21, Len(a)), b))
    ELSE BigNorm([k \in 1..(Len(a) + Len(b) - 1) |-> Conv(a, b, k, 1)])

\* a - b, for a >= b; c is the borrow
RECURSIVE BigBorrow(_, _, _, _)
BigBorrow(a, b, k, c) ==
    IF k > Len(a) THEN <<>>
    ELSE LET v == a[k] - Limb(b, k) - c
         IN  IF v < 0 THEN <<v + BigBase>> \o BigBorrow(a, b, k + 1, 1)
                      ELSE <<v>> \o BigBorrow(a, b, k + 1, 0)

BigSub(a, b) == BigTrim(BigBorrow(a, b, 1, 0))

\* long division by the small number d, from the digit of rank k down; r is
\* the remainder so far
RECURSIVE BigDivStep(_, _, _, _)
BigDivStep(a, d, k, r) ==
    IF k = 0 THEN <<>>
    ELSE LET v == r * BigBase + a[k]
         IN  BigDivStep(a, d, k - 1, v % d) \o <<v \div d>>

\* the integer part of a / d
BigDivSmall(a, d) == BigTrim(BigDivStep(a, d, Len(a), 0))

\* a <= b
BigLeq(a, b) ==
    IF Len(a) # Len(b) THEN Len(a) < Len(b)
    ELSE \/ a = b
         \/ \E k \in 1..Len(a) :
                a[k] < b[k] /\ \A j \in (k + 1)..Len(a) : a[j] = b[j]

\* the sum of the values of a function with a finite domain
RECURSIVE BigSum(_)
BigSum(f) ==
    IF DOMAIN f = {} THEN <<>>
    ELSE LET x == CHOOSE x \in DOMAIN f : TRUE
         IN  BigAdd(f[x], BigSum([y \in DOMAIN f \ {x} |-> f[y]]))

(***************************************************************************)
(* The TF-IDF index: TfidfVectorizer(ngram_range=(1,2), min_df=1) with the *)
(* library defaults (token pattern \b\w\w+\b, smooth idf, l2 norm) and     *)
(* cosine_similarity.  An idf and a weight (count * idf) are numbers of    *)
(* units of 10^-16.  The cosine is kept as the three sums it is made of:   *)
(* [dot, qq, dd] stands for dot / sqrt(qq * dd).                           *)
(*                                                                         *)
(* The code does not hold that number but a binary64 float near it, and    *)
(* which float depends on the library's order of operations and on the     *)
(* platform's logarithm, which the source does not fix.  A float           *)
(* similarity is therefore the exact sums with the side the float lies on, *)
(* err = -1 below and err = 1 above, at a relative distance of at most     *)
(* 10^-14 on its square.  Where both sides give one result the model has   *)
(* one outcome; at a threshold or half-way between two roundings it has    *)
(* both, as has a build of the code.  A similarity of no common feature is *)
(* the float 0.0 itself.                                                   *)
(***************************************************************************)
\* ln(2) in units of 10^-24
Ln2 == <<7232, 941, 9453, 559, 4718, 6931>>

\* floor(log2(k)), for k >= 1
RECURSIVE Log2(_)
Log2(k) == IF k < 2 THEN 0 ELSE 1 + Log2(k \div 2)

\* the sum over j >= i of x_j / (2j + 1), where x_i = x and
\* x_(j+1) = x_j * p^2 / q^2; it ends when x_j has no digit left
RECURSIVE AtanhSum(_, _, _, _)
AtanhSum(x, p, q, i) ==
    IF x = <<>> THEN <<>>
    ELSE BigAdd(BigDivSmall(x, 2 * i + 1),
                AtanhSum(BigDivSmall(BigScale(BigDivSmall(BigScale(x, p), q), p), q),
                         p, q, i + 1))

\* ln(k) in units of 10^-24: with 2^m the largest power of two up to k,
\* ln(k) = m * ln(2) + 2 * atanh((k - 2^m) / (k + 2^m))
LnSeries(k) ==
    LET m == Log2(k)
        p == k - 2 ^ m
        q == k + 2 ^ m
        x == BigDivSmall(BigScale(<<0, 0, 0, 0, 0, 0, 1>>, p), q)
    IN  BigAdd(BigScale(Ln2, m), BigScale(AtanhSum(x, p, q, 0), 2))

\* ln(k) for k = 1..16 in units of 10^-16, to the nearest
LnTable ==
    <<<<>>,
      <<9453, 559, 4718, 6931>>,
      <<1097, 8668, 1228, 986, 1>>,
      <<8906, 1119, 9436, 3862, 1>>,
      <<1004, 2434, 3791, 6094, 1>>,
      <<550, 9228, 5946, 7917, 1>>,
      <<3133, 9055, 1014, 9459, 1>>,
      <<8359, 1679, 4154, 794, 2>>,
      <<2194, 7336, 2457, 1972, 2>>,
      <<457, 2994, 8509, 3025, 2>>,
      <<3705, 2798, 9527, 3978, 2>>,
      <<3, 9788, 664, 4849, 2>>,
      <<5367, 7461, 4935, 5649, 2>>,
      <<2586, 9615, 5732, 6390, 2>>,
      <<2101, 1102, 5020, 7080, 2>>,
      <<7812, 2239, 8872, 7725, 2>>>>

\* math.log(k) in units of 10^-16, to the nearest: from the table, and beyond
\* it from the series
Ln(k) ==
    IF k <= Len(LnTable) THEN LnTable[k]
    ELSE BigTrim(SubSeq(BigAdd(LnSeries(k), <<0, 5000>>) \o <<0, 0>>, 3,
                        Len(LnSeries(k)) + 1))

\* the smoothed idf ln((1 + n) / (1 + df)) + 1
Idf(n, df) == BigAdd(<<0, 0, 0, 0, 1>>, BigSub(Ln(n + 1), Ln(df + 1)))

\* the similarity 0.0
SimZero == [dot |-> <<>>, qq |-> <<1>>, dd |-> <<1>>, err |-> 1]

\* x * 10^14: the square of a float similarity is the square of the cosine
\* times FloatFactor / FloatScale
FloatScale(x) == BigTrim(<<0, 0, 0>> \o BigScale(x, 100))

\* x * (10^14 + 1) for a float above the cosine, x * (10^14 - 1) below
FloatFactor(x, err) ==
    IF err > 0 THEN BigAdd(FloatScale(x), x) ELSE BigSub(FloatScale(x), x)

\* the floats a cosine can be computed as
Floats(cos) ==
    IF cos.dot = <<>> THEN {SimZero}
    ELSE {[dot |-> cos.dot, qq |-> cos.qq, dd |-> cos.dd, err |-> e] : e \in {0 - 1, 1}}

\* sim >= t / 10000 on the float, for a threshold t in ten-thousandths:
\* dot^2 * 10^8 * (10^14 + err) >= t^2 * qq * dd * 10^14
SimGeq(sim, t) ==
    IF sim.dot = <<>> THEN t <= 0
    ELSE BigLeq(FloatScale(BigScale(BigScale(BigMul(sim.qq, sim.dd), t), t)),
                FloatFactor(<<0, 0>> \o BigMul(sim.dot, sim.dot), sim.err))

\* a <= b for two cosines
SimLeq(a, b) ==
    IF a.dot = <<>> THEN TRUE
    ELSE IF b.dot = <<>> THEN FALSE
    ELSE IF a.qq = b.qq
    THEN BigLeq(BigMul(BigMul(a.dot, a.dot), b.dd), BigMul(BigMul(b.dot, b.dot), a.dd))
    ELSE BigLeq(BigMul(BigMul(BigMul(a.dot, a.dot), b.dd), b.qq),
                BigMul(BigMul(BigMul(b.dot, b.dot), a.dd), a.qq))

\* every float of the cosine a is below every float of the cosine b, for the
\* cosines of one query (a.qq = b.qq)
SimBelow(a, b) ==
    IF b.dot = <<>> THEN FALSE
    ELSE IF a.dot = <<>> THEN TRUE
    ELSE ~BigLeq(FloatFactor(BigMul(BigMul(b.dot, b.dot), a.dd), 0 - 1),
                 FloatFactor(BigMul(BigMul(a.dot, a.dot), b.dd), 1))

\* (2c - 1)^2 * den <= num: the value num / den is at least (c - 1/2)^2
HalfReached(den, num, c) ==
    LET h == BigNorm(<<2 * c - 1>>)
    IN  BigLeq(BigMul(BigMul(h, h), den), num)

\* the first of c, 2c, 4c, ... that HalfReached does not hold of
RECURSIVE RoundAbove(_, _, _)
RoundAbove(den, num, c) ==
    IF HalfReached(den, num, c) THEN RoundAbove(den, num, 2 * c) ELSE c

\* the largest c in lo..hi with c = lo or HalfReached
RECURSIVE RoundSearch(_, _, _, _)
RoundSearch(den, num, lo, hi) ==
    IF lo >= hi THEN lo
    ELSE LET mid == (lo + hi + 1) \div 2
         IN  IF HalfReached(den, num, mid)
             THEN RoundSearch(den, num, mid, hi)
             ELSE RoundSearch(den, num, lo, mid - 1)

\* the largest c with c = 0 or HalfReached, looked for from c upwards or
\* downwards
RECURSIVE RoundNear(_, _, _)
RoundNear(den, num, c) ==
    IF c > 0 /\ ~HalfReached(den, num, c) THEN RoundNear(den, num, c - 1)
    ELSE IF HalfReached(den, num, c + 1) THEN RoundNear(den, num, c + 1)
    ELSE c

\* the float sim times k, to the nearest integer: the largest c with
\* (2c - 1) / (2k) <= sim, whatever the size of sim.  It is searched on the
\* five highest digits of den and the digits of num of the same ranks, and
\* the result is then settled on the whole numbers
RoundTo(sim, k) ==
    IF sim.dot = <<>> THEN 0
    ELSE LET den  == FloatScale(BigMul(sim.qq, sim.dd))
             num  == FloatFactor(BigScale(BigScale(BigMul(sim.dot, sim.dot), 2 * k), 2 * k),
                                 sim.err)
             low  == Max(0, Len(den) - 5)
             denh == SubSeq(den, low + 1, Len(den))
             numh == SubSeq(num, low + 1, Len(num))
             top  == RoundAbove(denh, numh, k + 1)
             near == RoundSearch(denh, numh, IF top = k + 1 THEN 0 ELSE top \div 2, top - 1)
         IN  RoundNear(den, num, near)

\* round(float(sim), 4), in ten-thousandths
Round4(sim) == RoundTo(sim, 10000)

\* re.findall(r"\b\w\w+\b", text): the maximal runs of two or more word characters
RECURSIVE Tok(_, _)
Tok(t, cur) ==
    LET flush == IF Len(cur) >= 2 THEN <<cur>> ELSE <<>>
    IN  IF t = <<>> THEN flush
        ELSE IF IsWord(Head(t)) THEN Tok(Tail(t), Append(cur, Head(t)))
        ELSE flush \o Tok(Tail(t), <<>>)

Tokens(doc) == Tok(lower(doc), <<>>)

\* unigrams and bigrams of a token list; a feature is a tuple of tokens
Ngrams(toks) ==
    [i \in 1..Len(toks) |-> <<toks[i]>>] \o
    [i \in 1..(Len(toks) - 1) |-> <<toks[i], toks[i + 1]>>]

Analyze(doc) == Ngrams(Tokens(doc))

Count(f, feats) == Cardinality({i \in DOMAIN feats : feats[i] = f})

\* vec.fit_transform(target_terms): ok is FALSE where sklearn raises
\* ValueError("empty vocabulary")
build_tfidf_index(target_terms) ==
    LET feats == [i \in DOMAIN target_terms |-> Analyze(target_terms[i])]
        vocab == UNION {Range(feats[i]) : i \in DOMAIN feats}
        n     == Len(target_terms)
    IN  [ok    |-> vocab # {},
         feats |-> feats,
         vocab |-> vocab,
         idf   |-> [f \in vocab |->
                      Idf(n, Cardinality({i \in DOMAIN feats : f \in Range(feats[i])}))]]

\* the tf-idf weights of the features of a text that are in the vocabulary
Weights(feats, index) ==
    [f \in Range(feats) \cap index.vocab |->
        BigScale(index.idf[f], Count(f, feats))]

\* the dot product of two weight vectors scaled as a cosine is, without the
\* division by the two norms (a weight of 1 is 10^16 units)
CosineUnnormalized(qv, dv) ==
    LET common == DOMAIN qv \cap DOMAIN dv
    IN  [dot |-> BigSum([f \in common |-> BigMul(qv[f], dv[f])]),
         qq  |-> <<0, 0, 0, 0, 0, 0, 0, 0, 1>>,
         dd  |-> <<0, 0, 0, 0, 0, 0, 0, 0, 1>>]

\* cosine_similarity of two weight vectors: the sums of dot / sqrt(qq * dd)
Cosine(qv, dv) ==
    LET common == DOMAIN qv \cap DOMAIN dv
    IN  [dot |-> BigSum([f \in common |-> BigMul(qv[f], dv[f])]),
         qq  |-> BigSum([f \in DOMAIN qv |-> BigMul(qv[f], qv[f])]),
         dd  |-> BigSum([f \in DOMAIN dv |-> BigMul(dv[f], dv[f])])]

\* the first index in i..Len(sims) of a cosine larger than sims[best], and so
\* on from there; best when there is none
RECURSIVE ArgMaxFrom(_, _, _)
ArgMaxFrom(sims, i, best) ==
    IF i > Len(sims) THEN best
    ELSE IF SimLeq(sims[i], sims[best]) THEN ArgMaxFrom(sims, i + 1, best)
    ELSE ArgMaxFrom(sims, i + 1, i)

\* np.argmax(sims) on the floats: an index whose float can be the largest,
\* and the first one of those whose floats are the same float (0.0, or the
\* similarity to the same document vector)
ArgMax(sims, dvs) ==
    LET top == ArgMaxFrom(sims, 2, 1)
    IN  {i \in DOMAIN sims :
            /\ i = top \/ ~SimBelow(sims[i], sims[top])
            /\ \A j \in 1..(i - 1) :
                   /\ dvs[j] # dvs[i]
                   /\ sims[j].dot # <<>> \/ sims[i].dot # <<>>}

\* the pairs (term, float similarity) _semantic_match can return
semantic_match(query, index, vocab_terms) ==
    LET qv   == Weights(Analyze(query), index)
        dvs  == [i \in DOMAIN index.feats |-> Weights(index.feats[i], index)]
        sims == [i \in DOMAIN dvs |-> Cosine(qv, dvs[i])]
    IN  IF Len(sims) = 0 THEN {[term |-> <<>>, sim |-> SimZero]}
        ELSE UNION {{[term |-> vocab_terms[i], sim |-> s] : s \in Floats(sims[i])} :
                       i \in ArgMax(sims, dvs)}

(***************************************************************************)
(* State of one run of process_dataframe                                   *)
(***************************************************************************)
VARIABLES
    mapping_df,   \* the catalog table, a sequence of catalog rows
    df_in,        \* the input table, a sequence of rows
    df,           \* the working table
    columns,      \* the columns the working table has
    pc,           \* the stage that runs next; "done" or "raised" at the end
    progress,     \* the fractions (in percent) passed to progress_callback
    result,       \* the returned tuple, once the run is done
    text_in,      \* the string handed to a text helper called on its own
    text_out      \* what the text helper returned

vars == <<mapping_df, df_in, df, columns, pc, progress, result, text_in, text_out>>

\* the value of a column no stage has written (NaN in an object column)
Unset == "NaN"

\* NaN in the float column confianca
NaNConf == 0 - 1

\* dict.get(key) when the key is absent
None == <<"None">>

\* the truth value of a looked-up string
Truthy(v) == v # None /\ v # <<>>

\* catalog_loader: a catalog row with its normalized keys
CatalogRow(orig, nova, cat) ==
    [SubCatOriginal    |-> orig,
     NovaSubCat        |-> nova,
     categoria_oficial |-> cat,
     k_original        |-> norm_text(Str(orig)),
     k_nova            |-> norm_text(Str(nova)),
     k_categoria       |-> norm_text(Str(cat))]

\* DataFrame.drop_duplicates() on a sequence: first occurrences, in order
RECURSIVE DropDuplicates(_)
DropDuplicates(s) ==
    IF s = <<>> THEN <<>>
    ELSE LET init == SubSeq(s, 1, Len(s) - 1)
             last == s[Len(s)]
         IN  IF last \in Range(init) THEN DropDuplicates(init)
             ELSE Append(DropDuplicates(init), last)

\* dict(mapping[[a, b]].drop_duplicates().values): the pairs <<key, value>>
DictPairs(mapping, a, b) ==
    DropDuplicates([i \in DOMAIN mapping |-> <<mapping[i][a], mapping[i][b]>>])

\* d.get(key) on a dict built from pairs: the last pair of a key wins
DictGet(pairs, key) ==
    LET hits == {i \in DOMAIN pairs : pairs[i][1] = key}
    IN  IF hits = {} THEN None
        ELSE pairs[CHOOSE i \in hits : \A j \in hits : j <= i][2]

subcat_norm_to_pretty == DictPairs(mapping_df, "k_nova", "NovaSubCat")

subcat_norm_to_cat == DictPairs(mapping_df, "k_nova", "categoria_oficial")

orig_norm_to_new == DictPairs(mapping_df, "k_original", "NovaSubCat")

orig_norm_to_k_nova == DictPairs(mapping_df, "k_original", "k_nova")

apply_guard_rail(row, k_nova_norm) ==
    IF k_nova_norm = <<>> THEN row
    ELSE LET cat_oficial == DictGet(subcat_norm_to_cat, k_nova_norm)
         IN  IF Truthy(cat_oficial) THEN [row EXCEPT !.Categoria = cat_oficial]
             ELSE row

\* .str.strip().str.lower() == "excluir"
IsExcluir(label) == lower(strip(Str(label))) = <<"e", "x", "c", "l", "u", "i", "r">>

\* np.where(label is the sentinel, "Excluir", "Corrigir")
AcaoFor(label) == IF IsExcluir(label) THEN "Excluir" ELSE "Corrigir"

\* _update(frac, text): the callback is called with the fraction
Update(fracs) == progress' = progress \o fracs

(***************************************************************************)
(* Lines 52-76: copy, originals, prefix stripping                          *)
(***************************************************************************)
PrepareRow(i) ==
    LET r == df_in[i]
    IN  [row              |-> i,
         ID               |-> r.ID,
         Nome             |-> r.Nome,
         Endereco         |-> r.Endereco,
         N                |-> r.N,
         Categoria        |-> r.Categoria,
         SubCategoria     |-> strip_loja_prefix(r.SubCategoria),
         Cat_Original     |-> Str(r.Categoria),
         SubCat_Original  |-> Str(r.SubCategoria),
         k_subcat_in      |-> NaN,
         k_original       |-> NaN,
         k_nova           |-> NaN,
         NovaSubCat       |-> NaN,
         categoria_oficial |-> NaN,
         nova_contains    |-> None,
         acao             |-> Unset,
         fonte            |-> Unset,
         confianca        |-> NaNConf,
         SubCat_Intermediaria |-> NaN]

Prepare ==
    /\ pc = "prepare"
    /\ df' = [i \in DOMAIN df_in |-> PrepareRow(i)]
    /\ columns' = columns \cup {"_Cat_Original", "_SubCat_Original"}
    /\ Update(<<5, 10>>)
    /\ pc' = "exact"
    /\ UNCHANGED <<mapping_df, df_in, result, text_in, text_out>>

(***************************************************************************)
(* Lines 94-114: stage 1, exact catalog match                              *)
(***************************************************************************)
\* the rows df.merge(mapping_df, left_on="_k_subcat_in", right_on="k_original",
\* how="left") yields for one row of the left table
MergeRow(r) ==
    LET k    == norm_text(Str(r.SubCategoria))
        hits == {j \in DOMAIN mapping_df : mapping_df[j].k_original = k}
        left == [r EXCEPT !.k_subcat_in = k]
        RECURSIVE Joined(_)
        Joined(j) ==
            IF j > Len(mapping_df) THEN <<>>
            ELSE IF j \in hits
                 THEN <<[left EXCEPT !.k_original = mapping_df[j].k_original,
                                     !.k_nova = mapping_df[j].k_nova,
                                     !.NovaSubCat = mapping_df[j].NovaSubCat,
                                     !.categoria_oficial = mapping_df[j].categoria_oficial]>>
                      \o Joined(j + 1)
                 ELSE Joined(j + 1)
    IN  IF hits = {} THEN <<left>> ELSE Joined(1)

Merge(table) ==
    LET RECURSIVE M(_)
        M(i) == IF i > Len(table) THEN <<>> ELSE MergeRow(table[i]) \o M(i + 1)
    IN  M(1)

\* df.loc[det_mask, "confianca"] = 0.99
ConfCatalogo == 9900

\* stage 1 without its guard-rail loop (lines 112-114 left out)
ExactRowNoGuardRail(r) ==
    IF isna(r.k_nova) THEN r
    ELSE [r EXCEPT !.SubCategoria = r.NovaSubCat,
                   !.acao = AcaoFor(r.NovaSubCat),
                   !.fonte = "catalogo",
                   !.confianca = ConfCatalogo]

\* the assignments under det_mask, for one merged row
ExactRow(r) ==
    IF isna(r.k_nova) THEN r
    ELSE LET r1 == [r EXCEPT !.SubCategoria = r.NovaSubCat,
                             !.acao = AcaoFor(r.NovaSubCat),
                             !.fonte = "catalogo",
                             !.confianca = ConfCatalogo]
         IN  apply_guard_rail(r1, norm_text(Str(r1.SubCategoria)))

ExactStage ==
    /\ pc = "exact"
    /\ LET merged == Merge(df)
           any    == \E i \in DOMAIN merged : ~isna(merged[i].k_nova)
       IN  /\ df' = [i \in DOMAIN merged |-> ExactRow(merged[i])]
           /\ columns' = columns \cup
                  {"_k_subcat_in", "k_original", "k_nova", "Nova SubCat", "categoria_oficial"}
                  \cup (IF any THEN {"acao", "fonte", "confianca"} ELSE {})
    /\ Update(<<15>>)
    /\ pc' = "contains"
    /\ UNCHANGED <<mapping_df, df_in, result, text_in, text_out>>

(***************************************************************************)
(* Lines 116-143: stage 2, substring match                                 *)
(***************************************************************************)
\* df.loc[cont_mask, "confianca"] = 0.90
ConfContains == 9000

\* a Series' row.get(c, ""): the cell, or "" when the table has no column c
RowGet(row, c) == IF c \in columns /\ c \in DOMAIN row THEN row[c] ELSE <<>>

\* sep.join(parts)
Join(parts, sep) ==
    LET RECURSIVE J(_)
        J(i) == IF i > Len(parts) THEN <<>>
                ELSE IF i = 1 THEN parts[1] \o J(2)
                ELSE sep \o parts[i] \o J(i + 1)
    IN  J(1)

\* what "for c in ("Nome")" iterates over: ("Nome") is the string "Nome", not a
\* one-element tuple, so c ranges over its characters
HayColumns == <<"N", "o", "m", "e">>

\* mapping_df[["k_original","Nova SubCat"]].drop_duplicates().values.tolist()
contains_pairs == DictPairs(mapping_df, "k_original", "NovaSubCat")

\* the haystack of _contains_rule, normalized
Haystack(row) ==
    norm_text(Join([i \in DOMAIN HayColumns |-> Str(RowGet(row, HayColumns[i]))], <<" ">>))

contains_rule(row) ==
    IF row.acao = Unset
    THEN LET hay_n == Haystack(row)
             hits  == {i \in DOMAIN contains_pairs :
                          /\ contains_pairs[i][1] # <<>>
                          /\ Contains(hay_n, contains_pairs[i][1])}
         IN  IF hits = {} THEN None
             ELSE contains_pairs[CHOOSE i \in hits : \A j \in hits : i <= j][2]
    ELSE None

\* stage 2 applied to every row, whether or not an earlier stage set its action
\* (the two tests of "acao" left out)
ContainsRowAnyAcao(r) ==
    LET nova == contains_rule([r EXCEPT !.acao = Unset])
        r0   == [r EXCEPT !.nova_contains = nova]
    IN  IF nova # None /\ ~isna(nova)
        THEN LET r1 == [r0 EXCEPT !.SubCategoria = nova,
                                  !.acao = AcaoFor(nova),
                                  !.fonte = "catalogo-contains",
                                  !.confianca = ConfContains]
             IN  apply_guard_rail(r1, norm_text(Str(r1.SubCategoria)))
        ELSE r0

\* the assignments under cont_mask, for one row
ContainsRow(r) ==
    LET nova == contains_rule(r)
        r0   == [r EXCEPT !.nova_contains = nova]
    IN  IF r.acao = Unset /\ nova # None /\ ~isna(nova)
        THEN LET r1 == [r0 EXCEPT !.SubCategoria = nova,
                                  !.acao = AcaoFor(nova),
                                  !.fonte = "catalogo-contains",
                                  !.confianca = ConfContains]
             IN  apply_guard_rail(r1, norm_text(Str(r1.SubCategoria)))
        ELSE r0

ContainsStage ==
    /\ pc = "contains"
    /\ Update(<<30>>)
    /\ IF "acao" \notin columns
       THEN \* df["acao"] raises KeyError: stage 1 matched no row
            /\ pc' = "raised"
            /\ UNCHANGED <<df, columns>>
       ELSE /\ df' = [i \in DOMAIN df |-> ContainsRow(df[i])]
            /\ columns' = columns \cup {"_nova_contains"}
            /\ pc' = "validator"
    /\ UNCHANGED <<mapping_df, df_in, result, text_in, text_out>>

(***************************************************************************)
(* Lines 145-193: stage 2.1, semantic validator                            *)
(***************************************************************************)
\* the default lo_threshold = 0.70 and hi_threshold = 0.90, in ten-thousandths
lo_threshold == 7000

hi_threshold == 9000

\* the lowered threshold 0.35 of the problematic labels
ProblematicThreshold == 3500

ProblematicLabels == {<<"c", "o", "o", "p", "e", "r", "a", "t", "i", "v", "a", " ", "d", "e", " ", "c", "r", "é", "d", "i", "t", "o">>, <<"o", "p", "e", "r", "a", "d", "o", "r", "a", " ", "d", "e", " ", "t", "e", "l", "e", "f", "o", "n", "i", "a">>}

\* Series.astype(str).dropna().unique().tolist() of a catalog column
UniqueTerms(mapping, col) == DropDuplicates([i \in DOMAIN mapping |-> Str(mapping[i][col])])

NormTerms(terms) == [i \in DOMAIN terms |-> norm_text(terms[i])]

\* target_terms_norm of the validator: the normalized original labels
ValidatorTerms == NormTerms(UniqueTerms(mapping_df, "SubCatOriginal"))

\* a or b
Or(a, b) == IF Truthy(a) THEN a ELSE b

\* line 179: sim >= lo_threshold or (is_problematic and sim >= 0.35)
ShouldOverride(sim, is_problematic) ==
    SimGeq(sim, lo_threshold) \/ (is_problematic /\ SimGeq(sim, ProblematicThreshold))

\* line 190: is_problematic and sim < 0.35
ShouldVerify(sim, is_problematic) ==
    is_problematic /\ ~SimGeq(sim, ProblematicThreshold)

\* lines 180-188: the override and its guard rail
OverrideAssign(r, nova_pred, pred_norm, sim) ==
    LET r1 == [r EXCEPT !.SubCategoria = nova_pred,
                        !.acao = "Corrigir",
                        !.fonte = "semantico-validador",
                        !.confianca = Round4(sim)]
        k_norm == Or(DictGet(orig_norm_to_k_nova, pred_norm), norm_text(nova_pred))
        cat_oficial == DictGet(subcat_norm_to_cat, k_norm)
    IN  IF Truthy(cat_oficial) THEN [r1 EXCEPT !.Categoria = cat_oficial] ELSE r1

\* lines 191-193: the row is flagged for review
VerifyAssign(r, sim) ==
    [r EXCEPT !.acao = "Verificar",
              !.fonte = "semantico-validador",
              !.confianca = Round4(sim)]

\* lines 161-193: the rest of the loop body, for the pair m that
\* _semantic_match returned
ValidateMatch(r, m) ==
    LET pred_norm == m.term
        sim       == m.sim
        looked    == DictGet(orig_norm_to_new, pred_norm)
    IN  IF ~Truthy(looked) THEN r
        ELSE
          LET atual          == lower(strip(Str(r.SubCategoria)))
              is_problematic == atual \in ProblematicLabels
              nova_pred      == strip(Str(looked))
              nova_pred_norm == lower(nova_pred)
          IN  IF nova_pred_norm = atual THEN r
              ELSE IF ShouldOverride(sim, is_problematic)
              THEN OverrideAssign(r, nova_pred, pred_norm, sim)
              ELSE IF ShouldVerify(sim, is_problematic)
              THEN VerifyAssign(r, sim)
              ELSE r

\* the body of the validator's loop for one row of idx_det: the rows it can
\* leave, one for each float the similarity can be
ValidateRow(r, index, terms) ==
    LET nome == Str(r.Nome)
    IN  IF nome = <<>> \/ lower(strip(nome)) \in {<<"n", "a", "n">>, <<"n", "o", "n", "e">>, <<>>}
        THEN {r}
        ELSE {ValidateMatch(r, m) : m \in semantic_match(norm_text(nome), index, terms)}

\* the tables with, at each position, one of the rows given for it
RECURSIVE Tables(_)
Tables(choices) ==
    IF choices = <<>> THEN {<<>>}
    ELSE {<<r>> \o t : r \in Head(choices), t \in Tables(Tail(choices))}

\* df["fonte"].isin(["catalogo", "catalogo-contains"])
InDetMask(r) == r.fonte \in {"catalogo", "catalogo-contains"}

ValidatorStage ==
    /\ pc = "validator"
    /\ Update(<<45>>)
    /\ LET index == build_tfidf_index(ValidatorTerms)
       IN  IF \A i \in DOMAIN df : ~InDetMask(df[i])
           THEN pc' = "inferencer" /\ UNCHANGED df
           ELSE IF ~index.ok
           THEN \* fit_transform raises ValueError: empty vocabulary
                pc' = "raised" /\ UNCHANGED df
           ELSE /\ df' \in Tables([i \in DOMAIN df |->
                                      IF InDetMask(df[i])
                                      THEN ValidateRow(df[i], index, ValidatorTerms)
                                      ELSE {df[i]}])
                /\ pc' = "inferencer"
    /\ UNCHANGED <<mapping_df, df_in, columns, result, text_in, text_out>>

(***************************************************************************)
(* Lines 195-244: stage 3, semantic inference over the pending rows        *)
(***************************************************************************)
\* target_terms_norm of the inferencer: the normalized canonical labels
InferencerTerms == NormTerms(UniqueTerms(mapping_df, "NovaSubCat"))

\* the query bag of a pending row
Bag(r) ==
    LET nome     == Str(r.Nome)
        endereco == Str(r.Endereco)
        categoria == Str(r.Categoria)
        subcat_original == strip(Str(r.SubCategoria))
    IN  IF subcat_original \in {<<>>, <<"n", "a", "n">>, <<"N", "o", "n", "e">>}
        THEN Join(<<nome, nome, endereco, categoria>>, <<" ">>)
        ELSE Join(<<nome, endereco, categoria>>, <<" ">>)

\* mapping_df.loc[mapping_df["k_nova"] == pred_norm, col].head(1).values
HeadWhere(pred_norm, col) ==
    LET hits == {j \in DOMAIN mapping_df : mapping_df[j].k_nova = pred_norm}
    IN  IF hits = {} THEN <<>>
        ELSE <<mapping_df[CHOOSE j \in hits : \A k \in hits : j <= k][col]>>

\* lines 231-240: the inferred label and its guard rail
InferAssign(r, human_pred, cat_oficial, sim) ==
    [r EXCEPT !.SubCategoria = human_pred[1],
              !.acao = "Inferir",
              !.fonte = "semantico",
              !.confianca = Round4(sim),
              !.Categoria = IF Len(cat_oficial) > 0 THEN cat_oficial[1] ELSE @]

\* lines 220-222 and 242-244: the row is kept as it is
KeepAssign(r, conf) ==
    [r EXCEPT !.acao = "Manter", !.fonte = "nenhum", !.confianca = conf]

\* lines 225-244: the rest of the loop body, for the pair m that
\* _semantic_match returned
InferMatch(r, m) ==
    LET human_pred  == HeadWhere(m.term, "NovaSubCat")
        cat_oficial == HeadWhere(m.term, "categoria_oficial")
    IN  IF SimGeq(m.sim, lo_threshold)
        THEN IF Len(human_pred) > 0
             THEN InferAssign(r, human_pred, cat_oficial, m.sim)
             ELSE r
        ELSE KeepAssign(r, Round4(m.sim))

\* the body of the inferencer's loop for one pending row: the rows it can
\* leave, one for each float the similarity can be
InferRow(r, index, terms) ==
    LET q == norm_text(Bag(r))
    IN  IF q = <<>> THEN {KeepAssign(r, 0)}
        ELSE {InferMatch(r, m) : m \in semantic_match(q, index, terms)}

InferencerStage ==
    /\ pc = "inferencer"
    /\ Update(<<70>>)
    /\ LET index == build_tfidf_index(InferencerTerms)
       IN  IF ~index.ok
           THEN \* fit_transform raises ValueError: empty vocabulary
                pc' = "raised" /\ UNCHANGED df
           ELSE /\ df' \in Tables([i \in DOMAIN df |->
                                      IF df[i].acao = Unset
                                      THEN InferRow(df[i], index, InferencerTerms)
                                      ELSE {df[i]}])
                /\ pc' = "address"
    /\ UNCHANGED <<mapping_df, df_in, columns, result, text_in, text_out>>

(***************************************************************************)
(* Lines 246-256: stage 3.1, the fixed address rule                        *)
(***************************************************************************)
\* the sentinel label "Excluir"
sExcluirLabel == <<"E", "x", "c", "l", "u", "i", "r">>

\* df.loc[endereco_excluir_mask, "confianca"] = 1.0
ConfEndereco == 10000

\* the address rule as a fallback: only rows no earlier stage changed
AddressRowFallbackOnly(r) ==
    IF EnderecoExcluir(r.Endereco) /\ r.acao \in {Unset, "Manter"}
    THEN [r EXCEPT !.SubCategoria = sExcluirLabel,
                   !.acao = "Excluir",
                   !.fonte = "regra-endereco",
                   !.confianca = ConfEndereco]
    ELSE r

AddressRow(r) ==
    IF EnderecoExcluir(r.Endereco)
    THEN [r EXCEPT !.SubCategoria = sExcluirLabel,
                   !.acao = "Excluir",
                   !.fonte = "regra-endereco",
                   !.confianca = ConfEndereco]
    ELSE r

AddressRule ==
    /\ pc = "address"
    /\ df' = [i \in DOMAIN df |-> AddressRow(df[i])]
    /\ pc' = "dedup"
    /\ UNCHANGED <<mapping_df, df_in, columns, progress, result, text_in, text_out>>

(***************************************************************************)
(* Lines 258-276: stage 3.2, removal of duplicates                         *)
(***************************************************************************)
\* the cells of dedupe_subset that the table has at this point
DedupeKey(r) ==
    <<r.ID, r.Nome, r.Endereco, r.Categoria, r.SubCategoria,
      r.Cat_Original, r.SubCat_Original, r.acao, r.fonte, r.confianca>>

\* df.drop_duplicates(subset=dedupe_subset).reset_index(drop=True)
RECURSIVE DropDuplicatesBy(_)
DropDuplicatesBy(s) ==
    IF s = <<>> THEN <<>>
    ELSE LET init == SubSeq(s, 1, Len(s) - 1)
             last == s[Len(s)]
         IN  IF \E i \in DOMAIN init : DedupeKey(init[i]) = DedupeKey(last)
             THEN DropDuplicatesBy(init)
             ELSE Append(DropDuplicatesBy(init), last)

Dedup ==
    /\ pc = "dedup"
    /\ df' = DropDuplicatesBy(df)
    /\ pc' = "finalize"
    /\ UNCHANGED <<mapping_df, df_in, columns, progress, result, text_in, text_out>>

(***************************************************************************)
(* Lines 278-345: stage 4, the intermediate subcategory, views and metrics *)
(***************************************************************************)
\* df.loc[excl_mask, "SubCat_Intermediaria"] = df.loc[excl_mask, "_SubCat_Original"]
FinalizeRow(r) ==
    IF IsExcluir(r.SubCategoria)
    THEN [r EXCEPT !.SubCat_Intermediaria = r.SubCat_Original]
    ELSE r

\* a row of df_final / df_all: auxiliary columns dropped, originals renamed
ViewRow(r) ==
    [row                  |-> r.row,
     ID                   |-> r.ID,
     Nome                 |-> r.Nome,
     Endereco             |-> r.Endereco,
     N                    |-> r.N,
     Categoria            |-> r.Categoria,
     SubCategoria         |-> r.SubCategoria,
     CatOriginal          |-> r.Cat_Original,
     SubCatOriginal       |-> r.SubCat_Original,
     SubCatCatalogada     |-> r.NovaSubCat,
     acao                 |-> r.acao,
     fonte                |-> r.fonte,
     confianca            |-> r.confianca,
     SubCat_Intermediaria |-> r.SubCat_Intermediaria]

\* a row of baixa_conf: the columns of cols_show
ShowRow(r) ==
    [row          |-> r.row,
     ID           |-> r.ID,
     Nome         |-> r.Nome,
     Endereco     |-> r.Endereco,
     Categoria    |-> r.Categoria,
     SubCategoria |-> r.SubCategoria,
     acao         |-> r.acao,
     fonte        |-> r.fonte,
     confianca    |-> r.confianca]

\* the low-confidence test without its threshold: every inferred row
IsBaixaConfAny(r) == r.fonte = "semantico"

\* (df["fonte"]=="semantico") & (df["confianca"]<hi_threshold)
IsBaixaConf(r) == r.fonte = "semantico" /\ r.confianca < hi_threshold

\* df[(df["fonte"]=="semantico") & (df["confianca"]<hi_threshold)], in order
RECURSIVE BaixaConf(_)
BaixaConf(s) ==
    IF s = <<>> THEN <<>>
    ELSE IF IsBaixaConf(Head(s)) THEN <<Head(s)>> \o BaixaConf(Tail(s))
    ELSE BaixaConf(Tail(s))

CountWhere(s, Test(_)) == Cardinality({i \in DOMAIN s : Test(s[i])})

Metrics(table) ==
    LET IsCatalogo(r) == r.fonte = "catalogo"
        IsContains(r) == r.fonte = "catalogo-contains"
        IsInferido(r) == r.fonte = "semantico"
        IsManter(r)   == r.fonte = "nenhum"
        IsExcl(r)     == IsExcluir(r.SubCategoria)
    IN  [total             |-> Len(table),
         catalogo          |-> CountWhere(table, IsCatalogo),
         catalogo_contains |-> CountWhere(table, IsContains),
         inferido          |-> CountWhere(table, IsInferido),
         manter            |-> CountWhere(table, IsManter),
         excluidos         |-> CountWhere(table, IsExcl),
         baixa_confianca   |-> CountWhere(table, IsBaixaConf)]

\* the deliverable without the excluded rows, as the header caption of the
\* application words it
df_final_sem_excluidos(final) ==
    LET Kept(r) == ~IsExcluir(r.SubCategoria)
        kept == SelectSeq(final, Kept)
    IN  [i \in DOMAIN kept |-> ViewRow(kept[i])]

\* df_final = df.copy(), auxiliary columns dropped, originals renamed
df_final(final) == [i \in DOMAIN final |-> ViewRow(final[i])]

\* df_all = df.copy(), with SubCat_Intermediaria, same clean-up
df_all(final) == [i \in DOMAIN final |-> ViewRow(final[i])]

Finalize ==
    /\ pc = "finalize"
    /\ Update(<<90, 100>>)
    /\ LET final == [i \in DOMAIN df |-> FinalizeRow(df[i])]
           low   == BaixaConf(df)
       IN  /\ df' = final
           /\ result' = [df_final   |-> df_final(final),
                         baixa_conf |-> [i \in DOMAIN low |-> ShowRow(low[i])],
                         metrics    |-> Metrics(df),
                         df_all     |-> df_all(final)]
    /\ columns' = columns \cup {"SubCat_Intermediaria"}
    /\ pc' = "done"
    /\ UNCHANGED <<mapping_df, df_in, text_in, text_out>>

(***************************************************************************)
(* Inputs: the strings, catalog rows and input rows the runs are drawn from *)
(***************************************************************************)
\* "Cabeleireiro"
sCabeleireiro == <<"C", "a", "b", "e", "l", "e", "i", "r", "e", "i", "r", "o">>

\* "CABELEIREIRO"
sCabeleireiroUpper == <<"C", "A", "B", "E", "L", "E", "I", "R", "E", "I", "R", "O">>

\* "Loja de Cabeleireiro"
sLojaDeCabeleireiro ==
    <<"L", "o", "j", "a", " ", "d", "e", " ", "C", "a",
      "b", "e", "l", "e", "i", "r", "e", "i", "r", "o">>

\* "Salão de Beleza"
sSalaoDeBeleza == <<"S", "a", "l", "ã", "o", " ", "d", "e", " ", "B", "e", "l", "e", "z", "a">>

\* "Barbearia"
sBarbearia == <<"B", "a", "r", "b", "e", "a", "r", "i", "a">>

\* "Serviços"
sServicos == <<"S", "e", "r", "v", "i", "ç", "o", "s">>

\* "Padaria"
sPadaria == <<"P", "a", "d", "a", "r", "i", "a">>

\* "Alimentação"
sAlimentacao == <<"A", "l", "i", "m", "e", "n", "t", "a", "ç", "ã", "o">>

\* "Quiosque"
sQuiosque == <<"Q", "u", "i", "o", "s", "q", "u", "e">>

\* "Excluir"
sExcluir == sExcluirLabel

\* "Banco"
sBanco == <<"B", "a", "n", "c", "o">>

\* "Cooperativa de Crédito"
sCooperativa ==
    <<"C", "o", "o", "p", "e", "r", "a", "t", "i", "v", "a",
      " ", "d", "e", " ", "C", "r", "é", "d", "i", "t", "o">>

\* "Financeiro"
sFinanceiro == <<"F", "i", "n", "a", "n", "c", "e", "i", "r", "o">>

\* "Caixa Eletrônico"
sCaixaEletronico ==
    <<"C", "a", "i", "x", "a", " ", "E", "l",
      "e", "t", "r", "ô", "n", "i", "c", "o">>

\* "Banco 24h"
sBanco24h == <<"B", "a", "n", "c", "o", " ", "2", "4", "h">>

\* "Confeitaria"
sConfeitaria == <<"C", "o", "n", "f", "e", "i", "t", "a", "r", "i", "a">>

\* "Varejo"
sVarejo == <<"V", "a", "r", "e", "j", "o">>

\* "Outros"
sOutros == <<"O", "u", "t", "r", "o", "s">>

\* "Studio Ana"
sStudioAna == <<"S", "t", "u", "d", "i", "o", " ", "A", "n", "a">>

\* "Padaria Pão Quente"
sPadariaPaoQuente ==
    <<"P", "a", "d", "a", "r", "i", "a", " ", "P",
      "ã", "o", " ", "Q", "u", "e", "n", "t", "e">>

\* "Quiosque Central"
sQuiosqueCentral ==
    <<"Q", "u", "i", "o", "s", "q", "u", "e",
      " ", "C", "e", "n", "t", "r", "a", "l">>

\* "Banco Sul"
sBancoSul == <<"B", "a", "n", "c", "o", " ", "S", "u", "l">>

\* "Caixa Sul"
sCaixaSul == <<"C", "a", "i", "x", "a", " ", "S", "u", "l">>

\* "Ana Hair"
sAnaHair == <<"A", "n", "a", " ", "H", "a", "i", "r">>

\* "Rua A, 10"
sRuaA == <<"R", "u", "a", " ", "A", ",", " ", "1", "0">>

\* "Av. B 20"
sAvB == <<"A", "v", ".", " ", "B", " ", "2", "0">>

\* "Rua C"
sRuaC == <<"R", "u", "a", " ", "C">>

\* "Loja 12, Shopping Center"
sLojaShopping ==
    <<"L", "o", "j", "a", " ", "1", "2", ",", " ", "S", "h", "o",
      "p", "p", "i", "n", "g", " ", "C", "e", "n", "t", "e", "r">>

\* "quiosque 7"
sQuiosque7 == <<"q", "u", "i", "o", "s", "q", "u", "e", " ", "7">>

\* "Casa de Beleza"
sCasaDeBeleza == <<"C", "a", "s", "a", " ", "d", "e", " ", "B", "e", "l", "e", "z", "a">>

\* "Loja 3"
sLoja3 == <<"L", "o", "j", "a", " ", "3">>

\* "Bar Pub Cha TV PC CD"
sBarPub ==
    <<"B", "a", "r", " ", "P", "u", "b", " ", "C", "h", "a", " ", "T", "V",
      " ", "P", "C", " ", "C", "D">>

\* "Cha TV PC CD TV PC CD TV PC CD TV PC CD PC CD PC CD PC CD TV":
\* of the eleven features of "bar pub cha tv pc cd" it has "cha" and "cha tv"
\* once, "tv" 5 times, "tv pc" 4 times, "pc", "cd" and "pc cd" 7 times each
sChaTv ==
    <<"C", "h", "a", " ", "T", "V", " ", "P", "C", " ", "C", "D", " ", "T",
      "V", " ", "P", "C", " ", "C", "D", " ", "T", "V", " ", "P", "C", " ",
      "C", "D", " ", "T", "V", " ", "P", "C", " ", "C", "D", " ", "P", "C",
      " ", "C", "D", " ", "P", "C", " ", "C", "D", " ", "P", "C", " ", "C",
      "D", " ", "T", "V">>

\* "Ag"
sAg == <<"A", "g">>
\* "Cx El Vi Qu Ho"
sCxElViQuHo ==
    <<"C", "x", " ", "E", "l", " ", "V", "i", " ", "Q", "u", " ", "H", "o">>
\* "Cx Sul"
sCxSul == <<"C", "x", " ", "S", "u", "l">>
\* "El El El El El Cx Cx Cx Cx Cx Vi Ag Ag Ag Ag Ag Ag Ag":
\* of the features of "ag" and "cx el vi qu ho" it has "ag" 7 times, "cx"
\* and "el" 5 times each, "vi" once, and none of their bigrams
sElCxViAg ==
    <<"E", "l", " ", "E", "l", " ", "E", "l", " ", "E", "l", " ", "E", "l",
      " ", "C", "x", " ", "C", "x", " ", "C", "x", " ", "C", "x", " ", "C",
      "x", " ", "V", "i", " ", "A", "g", " ", "A", "g", " ", "A", "g", " ",
      "A", "g", " ", "A", "g", " ", "A", "g", " ", "A", "g">>
\* the largest number of rows of the input table
MaxRows == 2

InputRow(id, nome, endereco, categoria, subcat, n) ==
    [ID |-> id, Nome |-> nome, Endereco |-> endereco, Categoria |-> categoria,
     SubCategoria |-> subcat, N |-> n]

eCabeleireiro == CatalogRow(sCabeleireiro, sSalaoDeBeleza, sServicos)

ePadaria == CatalogRow(sPadaria, sPadaria, sAlimentacao)

eQuiosque == CatalogRow(sQuiosque, sExcluir, sServicos)

eBanco == CatalogRow(sBanco, sCooperativa, sFinanceiro)

eBarbearia == CatalogRow(sCabeleireiroUpper, sBarbearia, sServicos)

eCaixa == CatalogRow(sCaixaEletronico, sBanco24h, sFinanceiro)

\* a second owner of the label "Padaria"
eConfeitaria == CatalogRow(sConfeitaria, sPadaria, sVarejo)

\* a canonical label of one letter: the token pattern of the vectorizer
\* keeps words of two or more characters, so its vocabulary is empty
eSigla == CatalogRow(sCabeleireiro, <<"X">>, sServicos)

\* a canonical label of six words: eleven features of equal weight
eBarPub == CatalogRow(sCabeleireiro, sBarPub, sAlimentacao)

\* a short original label of the problematic label "Cooperativa de Crédito"
eAg == CatalogRow(sAg, sCooperativa, sFinanceiro)

\* an original label of five words: nine features of equal weight
eCx == CatalogRow(sCxElViQuHo, sBanco24h, sFinanceiro)

\* the catalog of the rows whose similarity is at a threshold or below both
ThresholdCatalog == <<eAg, eCx>>

\* the catalogs: well-formed (every label a non-blank string, keys normalized
\* by the loader); among them catalogs with a repeated row, with a repeated
\* original label, and with a canonical label owned by two categories
Catalogs ==
    {<<eCabeleireiro>>,
     <<ePadaria>>,
     <<eCabeleireiro, ePadaria>>,
     <<eCabeleireiro, eQuiosque>>,
     <<eQuiosque, ePadaria>>,
     <<eCabeleireiro, eBanco>>,
     <<eBanco, eCaixa>>,
     <<eCabeleireiro, eBarbearia>>,
     <<eCabeleireiro, eCabeleireiro>>,
     <<ePadaria, eConfeitaria>>,
     <<eSigla>>,
     <<eBarPub>>,
     ThresholdCatalog,
     <<eBanco, eQuiosque, eCabeleireiro>>}

rStudio == InputRow(<<"1">>, sStudioAna, sRuaA, sOutros, sCabeleireiro, <<"1", "0">>)

rPadaria == InputRow(<<"2">>, sPadariaPaoQuente, sAvB, sOutros, <<>>, sPadaria)

rQuiosque ==
    InputRow(<<"3">>, sQuiosqueCentral, sRuaC, sServicos, sLojaDeCabeleireiro, sQuiosque7)

rBancoLoja == InputRow(<<"4">>, sBancoSul, sLojaShopping, sOutros, sBanco, <<"1", "2">>)

rCaixa == InputRow(<<"5">>, sCaixaSul, sRuaC, sOutros, sBanco, <<"5">>)

rBlank == InputRow(<<"6">>, <<>>, <<>>, <<>>, NaN, <<>>)

rAnaHair == InputRow(<<"7">>, sAnaHair, sRuaA, sOutros, sSalaoDeBeleza, sQuiosque7)

\* a name that shares three of the five features of "salao de beleza"
rCasa == InputRow(<<"8">>, sCasaDeBeleza, sRuaC, sOutros, <<>>, <<>>)

rCasaLoja == InputRow(<<"9">>, sCasaDeBeleza, sLoja3, sOutros, <<>>, <<>>)

\* a name whose similarity to "bar pub cha tv pc cd" is
\* 32 / sqrt(11 * 190) = 0.6999658...
rChaTv == InputRow(<<"1", "0">>, sChaTv, sRuaC, sOutros, sOutros, <<>>)

\* a name whose similarity to "cx el vi qu ho" is 1 / sqrt(9) = 0.3333...
rCxSul == InputRow(<<"1", "1">>, sCxSul, sRuaC, sOutros, sAg, <<>>)

\* a name whose similarity to "ag" is 7 / sqrt(100), the cosine 0.7 itself,
\* and to "cx el vi qu ho" 11 / sqrt(9 * 100)
rElCxViAg == InputRow(<<"1", "2">>, sElCxViAg, sRuaC, sOutros, sCxElViQuHo, <<>>)

RowPool ==
    {rStudio, rPadaria, rQuiosque, rBancoLoja, rCaixa, rBlank, rAnaHair, rCasa, rCasaLoja,
     rChaTv}

\* the rows that go with ThresholdCatalog: the two made for it, a row it
\* leaves pending and the blank row
ThresholdRowPool == {rCxSul, rElCxViAg, rBancoLoja, rBlank}

\* the rows the tables of a catalog are made of
RowsFor(catalog) == IF catalog = ThresholdCatalog THEN ThresholdRowPool ELSE RowPool

SeqsUpTo(S, n) == UNION {[1..k -> S] : k \in 0..n}

\* the columns of the input table; some tables carry one more column, "N"
BaseColumns == {"ID", "Nome", "Endereço", "Categoria", "Sub-Categoria"}

Init ==
    /\ mapping_df \in Catalogs
    /\ \E t \in SeqsUpTo(RowsFor(mapping_df), MaxRows), hasN \in BOOLEAN :
         /\ df_in = [i \in DOMAIN t |-> IF hasN THEN t[i] ELSE [t[i] EXCEPT !.N = <<>>]]
         /\ columns = BaseColumns \cup (IF hasN THEN {"N"} ELSE {})
    /\ df = <<>>
    /\ pc = "prepare"
    /\ progress = <<>>
    /\ result = [df_final |-> <<>>, baixa_conf |-> <<>>, metrics |-> <<>>, df_all |-> <<>>]
    /\ text_in = <<>>
    /\ text_out = <<>>

Next ==
    \/ Prepare
    \/ ExactStage
    \/ ContainsStage
    \/ ValidatorStage
    \/ InferencerStage
    \/ AddressRule
    \/ Dedup
    \/ Finalize

Spec == Init /\ [][Next]_vars

(***************************************************************************)
(* Properties                                                              *)
(***************************************************************************)
\* the final output: the rows of the returned table
Output == result.df_final

\* every canonical label of the catalog has one owning category
SingleOwner ==
    \A i, j \in DOMAIN mapping_df :
        mapping_df[i].k_nova = mapping_df[j].k_nova
            => mapping_df[i].categoria_oficial = mapping_df[j].categoria_oficial

Acoes == {"Manter", "Corrigir", "Inferir", "Excluir", "Verificar"}

\* C1: guard-rail invariant on the final output: when every canonical label
\* has one owning category, every returned row whose normalized Sub-Categoria
\* is a catalog canonical label (k_nova) has that label's categoria_oficial as
\* its Categoria, rows kept as Manter and rows overwritten by the address rule
\* included.
C1_GuardRailFinal ==
    (pc = "done" /\ SingleOwner) =>
        \A i \in DOMAIN Output : \A j \in DOMAIN mapping_df :
            norm_text(Str(Output[i].SubCategoria)) = mapping_df[j].k_nova
                => Output[i].Categoria = mapping_df[j].categoria_oficial

\* C2: exclusion sentinel: no returned row whose Sub-Categoria is "Excluir"
\* has an action other than "Excluir", whichever stage assigned the sentinel.
C2_ExclusionSentinel ==
    pc = "done" =>
        \A i \in DOMAIN Output :
            Output[i].SubCategoria = sExcluir => Output[i].acao = "Excluir"

\* C3: run completion: the run never raises, and when it returns every row has
\* one of the five actions, also when stage 1 matched no row.
C3_RunCompletes ==
    /\ pc # "raised"
    /\ pc = "done" => \A i \in DOMAIN Output : Output[i].acao \in Acoes

\* the catalog rows whose original-label key, of two characters or more, is
\* contained in the normalized name of a row
NameHits(r) ==
    {j \in DOMAIN mapping_df :
        /\ Len(mapping_df[j].k_original) >= 2
        /\ Contains(norm_text(Str(r.Nome)), mapping_df[j].k_original)}

\* C4: stage 2: every row still unset after stage 1 whose normalized name
\* contains a catalog original-label key of length >= 2 gets the canonical
\* label of the first such catalog row, the action Excluir for the sentinel
\* and Corrigir otherwise, source catalogo-contains, confidence 0.90, and the
\* guard rail.
C4_ContainsByName ==
    [][(pc = "contains" /\ pc' = "validator") =>
        \A i \in DOMAIN df :
            (df[i].acao = Unset /\ NameHits(df[i]) # {}) =>
                LET j == CHOOSE j \in NameHits(df[i]) : \A k \in NameHits(df[i]) : j <= k
                    nova == mapping_df[j].NovaSubCat
                IN  /\ df'[i].SubCategoria = nova
                    /\ df'[i].acao = (IF IsExcluir(nova) THEN "Excluir" ELSE "Corrigir")
                    /\ df'[i].fonte = "catalogo-contains"
                    /\ df'[i].confianca = ConfContains
                    /\ SingleOwner => df'[i].Categoria = mapping_df[j].categoria_oficial
      ]_vars

\* C5: the address rule has the last word: every returned row whose address
\* has one of the keywords as a whole word is Sub-Categoria "Excluir", action
\* Excluir, source regra-endereco, confidence 1.0, whatever an earlier stage
\* decided; and the rule's step leaves every other row as it was.
C5_AddressRuleLastWord ==
    /\ [](pc = "done" =>
            \A i \in DOMAIN Output :
                EnderecoExcluir(Output[i].Endereco) =>
                    /\ Output[i].SubCategoria = sExcluir
                    /\ Output[i].acao = "Excluir"
                    /\ Output[i].fonte = "regra-endereco"
                    /\ Output[i].confianca = ConfEndereco)
    /\ [][pc = "address" =>
            /\ Len(df') = Len(df)
            /\ \A i \in DOMAIN df :
                   ~EnderecoExcluir(df[i].Endereco) => df'[i] = df[i]]_vars

\* a returned row that stage 1 had matched and the address rule overrode
C5_Witness ==
    /\ pc = "done"
    /\ \E i \in DOMAIN Output :
           /\ Output[i].Endereco = sLojaShopping
           /\ Output[i].SubCatCatalogada = sCooperativa
           /\ Output[i].fonte = "regra-endereco"
    /\ \E i \in DOMAIN Output : Output[i].fonte = "catalogo"

\* the catalog rows whose normalized original label is the normalized,
\* prefix-stripped Sub-Categoria of an input row
ExactHits(row) ==
    {j \in DOMAIN mapping_df :
        mapping_df[j].k_original =
            norm_text(Str(strip_loja_prefix(df_in[row].SubCategoria)))}

\* what stage 1 assigns to a row from the catalog row j
ExactEffect(r, j) ==
    /\ r.SubCategoria = mapping_df[j].NovaSubCat
    /\ r.acao = (IF IsExcluir(mapping_df[j].NovaSubCat) THEN "Excluir" ELSE "Corrigir")
    /\ r.fonte = "catalogo"
    /\ r.confianca = ConfCatalogo
    /\ SingleOwner => r.Categoria = mapping_df[j].categoria_oficial

\* C6: stage 1: right after it, a row whose normalized, prefix-stripped
\* Sub-Categoria is the normalized original label of a catalog row has that
\* row's canonical label, action Excluir for the sentinel and Corrigir
\* otherwise, source catalogo, confidence 0.99 and the label's owning category;
\* a row with no such catalog row has no action, source or confidence.
C6_ExactStageEffects ==
    [][(pc = "exact" /\ pc' = "contains") =>
        \A i \in DOMAIN df :
            LET out == {n \in DOMAIN df' : df'[n].row = df[i].row}
            IN  /\ out # {}
                /\ \A j \in ExactHits(df[i].row) : \E n \in out : ExactEffect(df'[n], j)
                /\ \A n \in out :
                       IF ExactHits(df[i].row) = {}
                       THEN /\ df'[n].acao = Unset
                            /\ df'[n].fonte = Unset
                            /\ df'[n].confianca = NaNConf
                            /\ df'[n].SubCategoria = df[i].SubCategoria
                            /\ df'[n].Categoria = df[i].Categoria
                       ELSE \E j \in ExactHits(df[i].row) : ExactEffect(df'[n], j)
      ]_vars

\* the spec's scenario after stage 1, beside a row that stage 1 did not match
C6_Witness ==
    /\ pc = "contains"
    /\ \E i \in DOMAIN df :
           /\ df[i].SubCat_Original = sCabeleireiro
           /\ df[i].Cat_Original = sOutros
           /\ df[i].SubCategoria = sSalaoDeBeleza
           /\ df[i].Categoria = sServicos
           /\ df[i].acao = "Corrigir"
           /\ df[i].fonte = "catalogo"
           /\ df[i].confianca = ConfCatalogo
    /\ \E i \in DOMAIN df : df[i].acao = Unset

\* C7: stage precedence: stage 2 changes the Sub-Categoria, Categoria, action,
\* source and confidence only of rows whose action is unset when it starts; a
\* row stage 1 matched is not altered.
C7_StagePrecedence ==
    [][pc = "contains" =>
        /\ Len(df') = Len(df)
        /\ \A i \in DOMAIN df :
               df[i].acao # Unset =>
                   /\ df'[i].SubCategoria = df[i].SubCategoria
                   /\ df'[i].Categoria = df[i].Categoria
                   /\ df'[i].acao = df[i].acao
                   /\ df'[i].fonte = df[i].fonte
                   /\ df'[i].confianca = df[i].confianca
      ]_vars

\* stage 2 has matched a row, beside a row of stage 1 whose haystack also
\* contains a catalog key
C7_Witness ==
    /\ pc = "validator"
    /\ \E i \in DOMAIN df : df[i].fonte = "catalogo-contains"
    /\ \E i \in DOMAIN df :
           /\ df[i].fonte = "catalogo"
           /\ \E j \in DOMAIN mapping_df : Contains(Haystack(df[i]), mapping_df[j].k_original)

\* the validator's view of a row: the best original label for its name with
\* its similarity, one pair for each float the similarity can be
ValidatorMatch(r) ==
    semantic_match(norm_text(Str(r.Nome)), build_tfidf_index(ValidatorTerms), ValidatorTerms)

\* the canonical label the catalog maps an original label to
CanonicalOf(term) == DictGet(orig_norm_to_new, term)

IsProblematic(r) == lower(strip(Str(r.SubCategoria))) \in ProblematicLabels

\* two labels are the same label: equal once trimmed and lower-cased
SameLabel(a, b) == lower(strip(Str(a))) = lower(strip(Str(b)))

\* the rows the validator looks at: resolved by stage 1 or 2, with a name;
\* a missing name reads "nan" or "none" (line 157)
Validated(r) ==
    /\ r.fonte \in {"catalogo", "catalogo-contains"}
    /\ lower(strip(Str(r.Nome))) \notin {<<>>, <<"n", "a", "n">>, <<"n", "o", "n", "e">>}

\* the owning category of a canonical label, when the catalog has the label
OwnedBy(label, cat) ==
    \A j \in DOMAIN mapping_df : mapping_df[j].NovaSubCat = label
                                    => mapping_df[j].categoria_oficial = cat

\* the confidence c, in ten-thousandths, is the similarity: the number
\* c / 10000 is a float the similarity can be, on the side of the cosine that
\* sim lies on
SimIs(sim, c) ==
    IF sim.dot = <<>> THEN c = 0
    ELSE LET cos2 == FloatScale(<<0, 0>> \o BigMul(sim.dot, sim.dot))
             far2 == FloatFactor(<<0, 0>> \o BigMul(sim.dot, sim.dot), sim.err)
             c2   == FloatScale(BigScale(BigScale(BigMul(sim.qq, sim.dd), c), c))
         IN  IF sim.err > 0 THEN BigLeq(cos2, c2) /\ BigLeq(c2, far2)
                            ELSE BigLeq(far2, c2) /\ BigLeq(c2, cos2)

\* C8: validator override: for a row resolved by stage 1 or 2 with a name, if
\* the best original label maps to a canonical label other than the row's and
\* the similarity is >= lo_threshold (or the row's label is problematic and
\* the similarity >= 0.35), the row gets that label, its owning category,
\* action Corrigir, source semantico-validador and the similarity as
\* confidence; if the predicted label is the row's, the row is unchanged.
C8_ValidatorOverride ==
    [][(pc = "validator" /\ pc' = "inferencer") =>
        \A i \in DOMAIN df :
            Validated(df[i]) =>
                \E m \in ValidatorMatch(df[i]) :
                    LET pred == CanonicalOf(m.term)
                    IN  /\ (/\ ~SameLabel(pred, df[i].SubCategoria)
                            /\ \/ SimGeq(m.sim, lo_threshold)
                               \/ IsProblematic(df[i]) /\ SimGeq(m.sim, ProblematicThreshold))
                           => /\ df'[i].SubCategoria = pred
                              /\ SingleOwner => OwnedBy(pred, df'[i].Categoria)
                              /\ df'[i].acao = "Corrigir"
                              /\ df'[i].fonte = "semantico-validador"
                              /\ SimIs(m.sim, df'[i].confianca)
                        /\ SameLabel(pred, df[i].SubCategoria) => df'[i] = df[i]
      ]_vars

\* C9: the validator's Verificar branch: a row whose label is problematic,
\* whose predicted label differs and whose similarity is below 0.35 and below
\* lo_threshold is flagged Verificar, source semantico-validador, confidence
\* the similarity, with Sub-Categoria and Categoria as stage 1/2 left them.
C9_VerifyLeavesLabels ==
    [][(pc = "validator" /\ pc' = "inferencer") =>
        \A i \in DOMAIN df :
            (Validated(df[i]) /\ IsProblematic(df[i])) =>
                \E m \in ValidatorMatch(df[i]) :
                    (/\ ~SameLabel(CanonicalOf(m.term), df[i].SubCategoria)
                     /\ ~SimGeq(m.sim, ProblematicThreshold)
                     /\ ~SimGeq(m.sim, lo_threshold))
                    => /\ df'[i].acao = "Verificar"
                       /\ df'[i].fonte = "semantico-validador"
                       /\ SimIs(m.sim, df'[i].confianca)
                       /\ df'[i].SubCategoria = df[i].SubCategoria
                       /\ df'[i].Categoria = df[i].Categoria
      ]_vars

\* the inferencer's view of a pending row: the best canonical label with its
\* similarity, one pair for each float the similarity can be
InferencerMatch(r) ==
    semantic_match(norm_text(Bag(r)), build_tfidf_index(InferencerTerms), InferencerTerms)

\* C10: the inferencer: a row still unset gets, when the best similarity is
\* >= lo_threshold, the best canonical label, its owning category, action
\* Inferir, source semantico and the similarity as confidence; otherwise (an
\* empty bag included, at similarity 0) action Manter, source nenhum, the
\* similarity as confidence, Sub-Categoria and Categoria as they were.  Rows
\* decided before are not touched.
C10_InferencerDecision ==
    [][(pc = "inferencer" /\ pc' = "address") =>
        /\ Len(df') = Len(df)
        /\ \A i \in DOMAIN df :
               IF df[i].acao # Unset THEN df'[i] = df[i]
               ELSE \E m \in InferencerMatch(df[i]) :
                        IF SimGeq(m.sim, lo_threshold)
                        THEN /\ \E j \in DOMAIN mapping_df :
                                    /\ mapping_df[j].k_nova = m.term
                                    /\ df'[i].SubCategoria = mapping_df[j].NovaSubCat
                                    /\ SingleOwner =>
                                           df'[i].Categoria = mapping_df[j].categoria_oficial
                             /\ df'[i].acao = "Inferir"
                             /\ df'[i].fonte = "semantico"
                             /\ SimIs(m.sim, df'[i].confianca)
                        ELSE /\ df'[i].acao = "Manter"
                             /\ df'[i].fonte = "nenhum"
                             /\ SimIs(m.sim, df'[i].confianca)
                             /\ df'[i].SubCategoria = df[i].SubCategoria
                             /\ df'[i].Categoria = df[i].Categoria
      ]_vars

\* the dedup-key cells an input row comes with
InKey(r) == <<r.ID, r.Nome, r.Endereco, r.Categoria, r.SubCategoria>>

\* C11: deduplication: input rows identical on the dedup-key columns yield
\* exactly one returned row, input rows that differ on a key column are all
\* retained, and the returned rows are the first occurrences in input order.
C11_Deduplication ==
    pc = "done" =>
        /\ \A i \in DOMAIN df_in :
               Cardinality({n \in DOMAIN Output :
                               InKey(df_in[Output[n].row]) = InKey(df_in[i])}) = 1
        /\ \A n \in DOMAIN Output :
               \A i \in 1..(Output[n].row - 1) :
                   InKey(df_in[i]) # InKey(df_in[Output[n].row])
        /\ \A m, n \in DOMAIN Output : m < n => Output[m].row <= Output[n].row

\* C12: the audit trail of an exclusion: whenever a stage turns the
\* Sub-Categoria of a row into the sentinel, the SubCat_Intermediaria the
\* final stage records for that row is the Sub-Categoria the row held
\* immediately before (for example the canonical label of stage 1, when the
\* address rule overrides it).
C12_IntermediateAudit ==
    [][(pc \in {"exact", "contains", "validator", "inferencer", "address"}) =>
        \A i \in DOMAIN df : \A n \in DOMAIN df' :
            (/\ (IF pc = "exact" THEN df'[n].row = df[i].row ELSE n = i)
             /\ ~IsExcluir(df[i].SubCategoria)
             /\ IsExcluir(df'[n].SubCategoria))
            => FinalizeRow(df'[n]).SubCat_Intermediaria = df[i].SubCategoria
      ]_vars

\* C13: an empty semantic vocabulary is not an error: when the target terms
\* of a stage's index yield no feature, the stage does not raise; the run goes
\* on, and the inferencer keeps every pending row (Manter, confidence 0).
C13_EmptyVocabulary ==
    [][/\ (pc = "validator" /\ ~build_tfidf_index(ValidatorTerms).ok)
            => pc' = "inferencer"
       /\ (pc = "inferencer" /\ ~build_tfidf_index(InferencerTerms).ok)
            => /\ pc' = "address"
               /\ \A i \in DOMAIN df :
                      df[i].acao = Unset => /\ df'[i].acao = "Manter"
                                            /\ df'[i].fonte = "nenhum"
                                            /\ df'[i].confianca = 0
      ]_vars

\* the returned rows whose source is semantico and whose confidence is below
\* hi_threshold
LowRows ==
    {i \in DOMAIN Output :
        Output[i].fonte = "semantico" /\ Output[i].confianca < hi_threshold}

\* the k-th of the low-confidence rows, in the order of the returned table
LowRow(k) == CHOOSE i \in LowRows : Cardinality({j \in LowRows : j < i}) = k - 1

\* C14: the low-confidence view holds exactly the rows of the returned
\* (deduplicated) table whose final source is semantico and whose confidence
\* is below hi_threshold, in the table's order, and metrics.baixa_confianca
\* is their number; a row the address rule overwrote is not among them.
C14_LowConfidenceView ==
    pc = "done" =>
        /\ Len(result.baixa_conf) = Cardinality(LowRows)
        /\ result.metrics.baixa_confianca = Len(result.baixa_conf)
        /\ \A k \in DOMAIN result.baixa_conf :
               LET b == result.baixa_conf[k]
                   o == Output[LowRow(k)]
               IN  /\ b.row = o.row
                   /\ b.ID = o.ID
                   /\ b.Nome = o.Nome
                   /\ b.Endereco = o.Endereco
                   /\ b.Categoria = o.Categoria
                   /\ b.SubCategoria = o.SubCategoria
                   /\ b.acao = o.acao
                   /\ b.fonte = o.fonte
                   /\ b.confianca = o.confianca
        /\ \A k \in DOMAIN result.baixa_conf :
               result.baixa_conf[k].fonte # "regra-endereco"

\* a returned table with one row in the low-confidence view (inferred at a
\* similarity between lo_threshold and hi_threshold) and a row the address
\* rule overwrote, which is not in it
C14_Witness ==
    /\ pc = "done"
    /\ Len(result.baixa_conf) = 1
    /\ result.baixa_conf[1].Nome = sCasaDeBeleza
    /\ result.baixa_conf[1].confianca >= lo_threshold
    /\ result.baixa_conf[1].confianca < hi_threshold
    /\ result.metrics.baixa_confianca = 1
    /\ \E i \in DOMAIN Output : Output[i].fonte = "regra-endereco"

\* C15: excluded rows stay in the deliverable: df_final has the rows of
\* df_all, the rows whose Sub-Categoria is "Excluir" included, in the same
\* order; they are the rows of the deduplicated table, and metrics.total
\* counts them all.
C15_ExcludedRetained ==
    pc = "done" =>
        /\ result.df_final = result.df_all
        /\ Len(result.df_final) = Len(df)
        /\ \A i \in DOMAIN df :
               /\ result.df_final[i].row = df[i].row
               /\ result.df_final[i].SubCategoria = df[i].SubCategoria
               /\ result.df_final[i].acao = df[i].acao
        /\ result.metrics.total = Len(result.df_all)
        /\ result.metrics.excluidos =
               Cardinality({i \in DOMAIN result.df_final :
                               IsExcluir(result.df_final[i].SubCategoria)})

\* a deliverable table that holds an excluded row beside a row that is not
C15_Witness ==
    /\ pc = "done"
    /\ result.metrics.total = 2
    /\ result.metrics.excluidos = 1
    /\ \E i \in DOMAIN result.df_final :
           /\ result.df_final[i].SubCategoria = sExcluir
           /\ result.df_final[i].acao = "Excluir"
    /\ \E i \in DOMAIN result.df_final : result.df_final[i].acao = "Corrigir"

\* the milestones, in percent
Milestones == <<0, 10, 15, 30, 45, 70, 90, 100>>

\* the number of milestones announced when a stage is about to run
Announced(stage) ==
    CASE stage = "prepare"    -> 0
      [] stage = "exact"      -> 2
      [] stage = "contains"   -> 3
      [] stage = "validator"  -> 4
      [] stage = "inferencer" -> 5
      [] stage = "address"    -> 6
      [] stage = "dedup"      -> 6
      [] stage = "finalize"   -> 6
      [] stage = "done"       -> 8

\* C16: progress milestones: in a run that returns, the callback is called
\* with exactly 0%, 10%, 15%, 30%, 45%, 70%, 90%, 100%, in that order, each
\* call made before the stage it announces and the last before the return.
C16_ProgressMilestones ==
    pc # "raised" => progress = SubSeq(Milestones, 1, Announced(pc))

\* a confidence that is set lies between 0 and 1
ConfOk(c) == c = NaNConf \/ (0 <= c /\ c <= 10 * 1000)

\* C17: confidence bound: in every state of a run, and in every returned
\* table, a confidence that is set is at least 0 and at most 1, whichever
\* stage wrote it.
C17_ConfidenceBound ==
    /\ \A i \in DOMAIN df : ConfOk(df[i].confianca)
    /\ \A i \in DOMAIN result.df_final : ConfOk(result.df_final[i].confianca)
    /\ \A i \in DOMAIN result.df_all : ConfOk(result.df_all[i].confianca)
    /\ \A i \in DOMAIN result.baixa_conf : ConfOk(result.baixa_conf[i].confianca)

\* a returned table with a similarity strictly between 0 and 1 written by the
\* validator and the confidence 0.0 of an empty query bag
C17_Witness ==
    /\ pc = "done"
    /\ \E i \in DOMAIN Output :
           /\ Output[i].fonte = "semantico-validador"
           /\ Output[i].confianca > 0
           /\ Output[i].confianca < ConfContains
    /\ \E i \in DOMAIN Output :
           /\ Output[i].fonte = "nenhum"
           /\ Output[i].confianca = 0

(***************************************************************************)
(* The text helpers called on their own                                    *)
(***************************************************************************)
\* the characters the strings are made of: an upper-case letter, an accented
\* upper-case letter, an accented lower-case letter, two whitespace
\* characters, a character the pattern replaces, and two it keeps
TextChars == {"B", "É", "ç", " ", "\t", "/", "-", "_"}

\* the largest length of a string made of TextChars
MaxText == 3

\* subcategory labels with and without a prefix
PrefixLabels ==
    {sLojaDeCabeleireiro,
     sPadaria,
     <<"L", "o", "j", "a", " ", "D", "e", "n", "t", "a", "l">>,
     <<"L", "o", "j", "a", " ", "d", "a", "s", " ", "F", "l", "o", "r", "e", "s">>,
     <<"S", "e", "r", "v", "i", "ç", "o", "s", " ", "d", "o", "s", " ", "C", "o", "r", "r", "e", "i", "o", "s">>,
     <<"L", "o", "j", "a">>,
     <<"L", "o", "j", "a", " ", "d", "e">>,
     <<" ", "L", "O", "J", "A", "S", " ", " ", "d", "e", " ", "R", "o", "u", "p", "a", "s", " ">>,
     <<"P", "o", "s", "t", "o", " ", "I", "p", "i", "r", "a", "n", "g", "a">>}

Texts == SeqsUpTo(TextChars, MaxText) \cup PrefixLabels

TextInit ==
    /\ text_in \in Texts
    /\ text_out = <<>>
    /\ pc = "text"
    /\ mapping_df = <<>>
    /\ df_in = <<>>
    /\ df = <<>>
    /\ columns = {}
    /\ progress = <<>>
    /\ result = [df_final |-> <<>>, baixa_conf |-> <<>>, metrics |-> <<>>, df_all |-> <<>>]

\* norm_text(x)
NormText ==
    /\ pc = "text"
    /\ text_out' = norm_text(text_in)
    /\ pc' = "normalized"
    /\ UNCHANGED <<mapping_df, df_in, df, columns, progress, result, text_in>>

\* norm_text(norm_text(x))
NormTextAgain ==
    /\ pc = "normalized"
    /\ text_out' = norm_text(text_out)
    /\ pc' = "renormalized"
    /\ UNCHANGED <<mapping_df, df_in, df, columns, progress, result, text_in>>

\* _strip_loja_prefix(x)
StripLojaPrefix ==
    /\ pc = "text"
    /\ text_out' = strip_loja_prefix(text_in)
    /\ pc' = "stripped"
    /\ UNCHANGED <<mapping_df, df_in, df, columns, progress, result, text_in>>

TextNext ==
    \/ NormText
    \/ NormTextAgain
    \/ StripLojaPrefix

TextSpec == TextInit /\ [][TextNext]_vars

\* C18: idempotence of normalization: norm_text applied to a normalized
\* string returns it unchanged, norm_text(norm_text(x)) = norm_text(x).
C18_NormTextIdempotent ==
    [][pc = "normalized" => text_out' = text_out]_vars

\* a string that normalization changes (accent, case, a replaced character,
\* a run of whitespace), normalized twice
C18_Witness ==
    /\ pc = "renormalized"
    /\ text_in = <<"É", "/", "\t">>
    /\ text_out = <<"e">>

\* C19: one record per input row: the working table and the returned table
\* never have more rows than the input table, and no input row gives rise to
\* two of them, also when the catalog has several rows with the same k_original.
C19_OneRecordPerRow ==
    /\ Len(df) <= Len(df_in)
    /\ \A i \in DOMAIN df_in :
           Cardinality({n \in DOMAIN df : df[n].row = i}) <= 1
    /\ pc = "done" =>
           /\ Len(Output) <= Len(df_in)
           /\ \A i \in DOMAIN df_in :
                  Cardinality({n \in DOMAIN Output : Output[n].row = i}) <= 1

\* the first word of a string: its characters up to the first whitespace
RECURSIVE FirstWord(_)
FirstWord(t) ==
    IF t = <<>> \/ IsSpace(Head(t)) THEN <<>>
    ELSE <<Head(t)>> \o FirstWord(Tail(t))

\* the nouns of the prefix, singular and plural, and the prepositions
NounWords ==
    {PrefixNouns[i] : i \in DOMAIN PrefixNouns}
        \cup {Append(PrefixNouns[i], "s") : i \in DOMAIN PrefixNouns}

PrepWords == {PrefixPreps[i] : i \in DOMAIN PrefixPreps}

\* a label without its prefix: the leading noun, when a word follows it, and
\* the preposition after it, when it is a whole word, are removed; the rest
\* is returned as it is, and the trimmed label when nothing is left
WithoutPrefix(label) ==
    LET t  == strip(label)
        w1 == FirstWord(t)
        r1 == LStrip(Drop(t, Len(w1)))
        w2 == FirstWord(r1)
        r2 == IF lower(w2) \in PrepWords THEN LStrip(Drop(r1, Len(w2))) ELSE r1
    IN  IF lower(w1) \in NounWords /\ r2 # <<>> THEN r2 ELSE t

\* C20: prefix stripping removes only the prefix: _strip_loja_prefix removes
\* at most a leading noun of the fixed set and a whole-word preposition after
\* it, and returns the rest of the label unchanged: no character of the
\* following word is removed; the trimmed label is returned when nothing
\* would be left or no prefix is present.
C20_PrefixOnly ==
    pc = "stripped" => text_out = WithoutPrefix(text_in)

\* C21: Manter means no change: every returned row whose action is Manter
\* (source nenhum) has the Sub-Categoria and Categoria of its input row, which
\* are its recorded original subcategory and category.
C21_KeepNoChange ==
    pc = "done" =>
        \A i \in DOMAIN Output :
            Output[i].acao = "Manter" =>
                /\ Output[i].fonte = "nenhum"
                /\ Output[i].SubCategoria = df_in[Output[i].row].SubCategoria
                /\ Output[i].Categoria = df_in[Output[i].row].Categoria
                /\ Str(Output[i].SubCategoria) = Output[i].SubCatOriginal
                /\ Str(Output[i].Categoria) = Output[i].CatOriginal

\* C22: action and source agree in the returned table: a row from the catalog
\* (exact or contains) is Corrigir or Excluir with confidence 0.99 or 0.90, a row
\* overridden or flagged by the validator is Corrigir or Verificar, an inferred
\* row is Inferir with confidence at least lo_threshold, a row with no source is
\* Manter with confidence below lo_threshold, and a row of the address rule is
\* Excluir with the label "Excluir" and confidence 1.0; no other source occurs.
C22_ActionSourceConsistency ==
    pc = "done" =>
        \A i \in DOMAIN Output :
            LET r == Output[i] IN
            /\ r.fonte \in {"catalogo", "catalogo-contains", "semantico-validador",
                            "semantico", "nenhum", "regra-endereco"}
            /\ r.fonte = "catalogo" =>
                   r.acao \in {"Corrigir", "Excluir"} /\ r.confianca = ConfCatalogo
            /\ r.fonte = "catalogo-contains" =>
                   r.acao \in {"Corrigir", "Excluir"} /\ r.confianca = ConfContains
            /\ r.fonte = "semantico-validador" => r.acao \in {"Corrigir", "Verificar"}
            /\ r.fonte = "semantico" =>
                   r.acao = "Inferir" /\ r.confianca >= lo_threshold
            /\ r.fonte = "nenhum" =>
                   r.acao = "Manter" /\ r.confianca < lo_threshold
            /\ r.fonte = "regra-endereco" =>
                   /\ r.acao = "Excluir"
                   /\ r.SubCategoria = sExcluir
                   /\ r.confianca = ConfEndereco

====
